---- MODULE Spec2Model ----
(***************************************************************************)
(* CircuLoop: the campus asset inventory (CampusInventory), its assets     *)
(* (CampusAsset) and the disposal-strategy classifier                      *)
(* (CampusAsset.evaluate_disposal_strategy) of src/CircuLoop.py.           *)
(*                                                                         *)
(* Representation                                                          *)
(*  - A Python dict is an insertion-ordered mapping: self.assets is a      *)
(*    sequence of entries [key, val].                                      *)
(*  - A string identifier "ASSET-0001" is the sequence of its pieces       *)
(*    <<"ASSET-", "0", "0", "0", "1">>, built digit by digit as the        *)
(*    format specification :04d builds it.                                 *)
(*  - age_years is a float in the source; the model counts hundredths of   *)
(*    a year (2.99 years is 299), so the thresholds 3, 5 and 7 are         *)
(*    Years(3), Years(5) and Years(7).                                     *)
(*  - None is the string "None"; every value datetime.datetime.now()       *)
(*    returns is the one abstract value "now".                             *)
(*  - **kwargs is a function from the supplied keyword names to values.    *)
(*    update_asset's own parameter is called asset_id, so Python rejects   *)
(*    a keyword asset_id before the body runs: no change set has that key. *)
(***************************************************************************)
EXTENDS Integers, Sequences, FiniteSets, TLC

VARIABLES
    assets,             \* self.assets: sequence of [key, val], insertion order
    next_id,            \* self.next_id
    marketplace_items,  \* self.marketplace_items
    components_library, \* self.components_library
    last,               \* the last call made on the inventory and what it returned
    issued,             \* history: the identifiers add_asset has returned, in order
    deleted,            \* history: the identifiers delete_asset has removed
    n_mut,              \* number of successful asset mutations made so far
    probe               \* one call of the classifier: its arguments and result

vars == <<assets, next_id, marketplace_items, components_library, last, issued,
          deleted, n_mut, probe>>

inv_vars == <<assets, next_id, marketplace_items, components_library>>

(***************************************************************************)
(* Bounds of the model.                                                    *)
(***************************************************************************)
MaxAssets == 2

MaxMutations == 1

(***************************************************************************)
(* The enumerations.                                                       *)
(***************************************************************************)
LAPTOP == "Laptop"

LAB_EQUIPMENT == "Lab Equipment"

CONSUMABLE == "Consumable"

APPLIANCE == "Appliance"

PERIPHERAL == "Peripheral"

DeviceCategory == {LAPTOP, LAB_EQUIPMENT, CONSUMABLE, APPLIANCE, PERIPHERAL}

RELOCATE == "Relocate to Permanent Campus"

REPURPOSE == "Repurpose/Upcycle for Labs"

MARKETPLACE == "Sell on Marketplace"

STRIP_COMPONENTS == "Strip for Components"

RECYCLE == "Responsible Recycling"

HAZARDOUS_DISPOSAL == "Hazardous Material Disposal"

DisposalStrategy ==
    {RELOCATE, REPURPOSE, MARKETPLACE, STRIP_COMPONENTS, RECYCLE, HAZARDOUS_DISPOSAL}

None == "None"

Now == "now"

Years(n) == n * 100

(***************************************************************************)
(* CampusAsset                                                             *)
(***************************************************************************)
evaluate_disposal_strategy_le(self) ==
    IF self.is_hazardous THEN HAZARDOUS_DISPOSAL
    ELSE IF self.age_years <= Years(3) /\ self.battery_health > 70 /\ self.can_refurbish
         THEN RELOCATE
    ELSE IF self.can_refurbish /\ self.age_years < Years(5) /\ self.battery_health > 40
         THEN MARKETPLACE
    ELSE IF self.category = LAB_EQUIPMENT /\ self.can_refurbish
         THEN REPURPOSE
    ELSE IF ~self.can_refurbish /\ self.age_years < Years(7)
         THEN STRIP_COMPONENTS
    ELSE RECYCLE

evaluate_disposal_strategy_hazlast(self) ==
    IF self.age_years < Years(3) /\ self.battery_health > 70 /\ self.can_refurbish
         THEN RELOCATE
    ELSE IF self.is_hazardous THEN HAZARDOUS_DISPOSAL
    ELSE IF self.can_refurbish /\ self.age_years < Years(5) /\ self.battery_health > 40
         THEN MARKETPLACE
    ELSE IF self.category = LAB_EQUIPMENT /\ self.can_refurbish
         THEN REPURPOSE
    ELSE IF ~self.can_refurbish /\ self.age_years < Years(7)
         THEN STRIP_COMPONENTS
    ELSE RECYCLE

evaluate_disposal_strategy(self) ==
    IF self.is_hazardous THEN HAZARDOUS_DISPOSAL
    ELSE IF self.age_years < Years(3) /\ self.battery_health > 70 /\ self.can_refurbish
         THEN RELOCATE
    ELSE IF self.can_refurbish /\ self.age_years < Years(5) /\ self.battery_health > 40
         THEN MARKETPLACE
    ELSE IF self.category = LAB_EQUIPMENT /\ self.can_refurbish
         THEN REPURPOSE
    ELSE IF ~self.can_refurbish /\ self.age_years < Years(7)
         THEN STRIP_COMPONENTS
    ELSE RECYCLE

\* The attributes __init__ sets before it runs the classifier (lines 27-37).
AssetFields(asset_id, name, model, category, age_years, battery_health, can_refurbish, is_hazardous) ==
    [asset_id |-> asset_id, name |-> name, model |-> model, category |-> category,
     age_years |-> age_years, battery_health |-> battery_health,
     can_refurbish |-> can_refurbish, is_hazardous |-> is_hazardous,
     status |-> "Dormant", location |-> "Storage", last_used |-> None]

WithStrategy(fields, strategy) ==
    [f \in DOMAIN fields \cup {"disposal_strategy"} |->
        IF f = "disposal_strategy" THEN strategy ELSE fields[f]]

CampusAsset_unclassified(asset_id, name, model, category, age_years, battery_health, can_refurbish, is_hazardous) ==
    WithStrategy(AssetFields(asset_id, name, model, category, age_years,
                             battery_health, can_refurbish, is_hazardous), RECYCLE)

CampusAsset(asset_id, name, model, category, age_years, battery_health, can_refurbish, is_hazardous) ==
    LET self == AssetFields(asset_id, name, model, category, age_years,
                            battery_health, can_refurbish, is_hazardous)
    IN  WithStrategy(self, evaluate_disposal_strategy(self))

update_status(self, new_status) ==
    [self EXCEPT !.status = new_status,
                 !.last_used = IF new_status = "In Use" THEN Now ELSE @]

\* The data attributes __init__ gives every asset.
AssetAttributes ==
    {"asset_id", "name", "model", "category", "age_years", "battery_health",
     "can_refurbish", "is_hazardous", "status", "location", "last_used",
     "disposal_strategy"}

\* hasattr(asset, key) for the data attributes of an asset.
hasattr(asset, key) == key \in DOMAIN asset

setattr_all_any(asset, kwargs) ==
    [f \in DOMAIN asset \cup DOMAIN kwargs |->
        IF f \in DOMAIN kwargs THEN kwargs[f] ELSE asset[f]]

\* The loop "for key, value in kwargs.items(): if hasattr: setattr" (160-162).
setattr_all(asset, kwargs) ==
    [f \in DOMAIN asset |-> IF f \in DOMAIN kwargs THEN kwargs[f] ELSE asset[f]]

(***************************************************************************)
(* Identifiers: f"ASSET-{self.next_id:04d}"                                *)
(***************************************************************************)
DigitChars == <<"0", "1", "2", "3", "4", "5", "6", "7", "8", "9">>

RECURSIVE Digits(_)
Digits(n) ==
    IF n < 10 THEN <<DigitChars[n + 1]>>
    ELSE Digits(n \div 10) \o <<DigitChars[(n % 10) + 1]>>

RECURSIVE ZeroPad(_, _)
ZeroPad(s, width) == IF Len(s) >= width THEN s ELSE ZeroPad(<<"0">> \o s, width)

FormatId(n) == <<"ASSET-">> \o ZeroPad(Digits(n), 4)

(***************************************************************************)
(* dict and list operations                                                *)
(***************************************************************************)
Keys(d) == {d[i].key : i \in DOMAIN d}

Values(d) == [i \in DOMAIN d |-> d[i].val]

IndexOf(d, k) == CHOOSE i \in DOMAIN d : d[i].key = k

Lookup(d, k) == d[IndexOf(d, k)].val

DictSet(d, k, v) ==
    IF k \in Keys(d) THEN [d EXCEPT ![IndexOf(d, k)].val = v]
    ELSE Append(d, [key |-> k, val |-> v])

DictDel(d, k) ==
    LET i == IndexOf(d, k)
    IN  SubSeq(d, 1, i - 1) \o SubSeq(d, i + 1, Len(d))

Contains(list, x) == \E i \in DOMAIN list : list[i] = x

\* list.remove(x): removes the first occurrence.
ListRemove(list, x) ==
    LET i == CHOOSE j \in DOMAIN list :
                 list[j] = x /\ \A h \in 1..(j - 1) : list[h] # x
    IN  SubSeq(list, 1, i - 1) \o SubSeq(list, i + 1, Len(list))

(***************************************************************************)
(* Inputs of the operations.                                               *)
(***************************************************************************)
Device(name, model, category, age_years, battery_health, can_refurbish, is_hazardous) ==
    [name |-> name, model |-> model, category |-> category, age_years |-> age_years,
     battery_health |-> battery_health, can_refurbish |-> can_refurbish,
     is_hazardous |-> is_hazardous]

\* Two devices of the demo (lines 399 and 401) and one the classifier sends to
\* the marketplace.
SampleDevices ==
    { Device("Laptop", "ThinkPad X1", LAPTOP, 150, 85, TRUE, FALSE),
      Device("LED Bulb", "Philips-12W", CONSUMABLE, 50, 100, FALSE, TRUE),
      Device("laptop", "ThinkPad T14", LAPTOP, 400, 60, TRUE, FALSE) }

NoKw == [k \in {} |-> 0]

\* The keyword arguments tried on update_asset. "price" is no attribute of an asset.
UpdateKwargs ==
    {NoKw, [status |-> "In Use"], [battery_health |-> 40], [battery_health |-> 90],
     [is_hazardous |-> TRUE], [is_hazardous |-> FALSE], [last_used |-> None],
     [price |-> 10], [disposal_strategy |-> MARKETPLACE],
     [age_years |-> 800, can_refurbish |-> FALSE],
     [price |-> 10, battery_health |-> 41]}

Statuses == {"In Use", "Dormant"}

\* The identifiers tried on delete, update and update_status: every identifier
\* add_asset can issue within the bound and one it never issues.
IdsTried == {FormatId(n) : n \in 1..(MaxAssets + 1)}

\* The criteria tried on search_assets.
SearchCriteria ==
    {NoKw, [name |-> "Laptop"], [price |-> 10], [name |-> "Laptop", price |-> 10],
     [asset_id |-> FormatId(1)]}

(***************************************************************************)
(* CampusInventory                                                         *)
(***************************************************************************)
\* The record of a call: the operation, its arguments and what it returned.
\* ok is the boolean a delete or an update returns; ret is the identifier
\* add_asset returns; results is the list search_assets returns.
Call(op, asset_id, kwargs, ok, ret, results) ==
    [op |-> op, asset_id |-> asset_id, kwargs |-> kwargs, ok |-> ok, ret |-> ret,
     results |-> results]

Init ==
    /\ assets = <<>>
    /\ next_id = 1
    /\ marketplace_items = <<>>
    /\ components_library = <<>>
    /\ last = Call("__init__", <<>>, NoKw, TRUE, <<>>, <<>>)
    /\ issued = <<>>
    /\ deleted = {}
    /\ n_mut = 0
    /\ probe = <<>>

_process_asset_prepend(items, asset) ==
    IF asset.disposal_strategy = MARKETPLACE THEN <<asset.asset_id>> \o items
    ELSE items

\* _process_asset: the marketplace index after the asset is processed (the other
\* two branches only print).
_process_asset(items, asset) ==
    IF asset.disposal_strategy = MARKETPLACE THEN Append(items, asset.asset_id)
    ELSE items

next_id_same(n) == n

next_id_after_add(n) == n + 1

add_asset(name, model, category, age_years, battery_health, can_refurbish, is_hazardous) ==
    /\ next_id <= MaxAssets
    /\ LET asset_id == FormatId(next_id)
           asset == CampusAsset(asset_id, name, model, category, age_years,
                                battery_health, can_refurbish, is_hazardous)
       IN  /\ next_id' = next_id_after_add(next_id)
           /\ assets' = DictSet(assets, asset_id, asset)
           /\ marketplace_items' = _process_asset(marketplace_items, asset)
           /\ last' = Call("add_asset", <<>>,
                           Device(name, model, category, age_years, battery_health,
                                  can_refurbish, is_hazardous),
                           TRUE, asset_id, <<>>)
           /\ issued' = Append(issued, asset_id)
    /\ UNCHANGED <<components_library, deleted, n_mut, probe>>

\* The branch taken for an identifier that is not in self.assets: print, return
\* False. The call returns before it reads its keyword arguments, and its record
\* keeps none.
not_found_true(op, asset_id) ==
    /\ last' = Call(op, asset_id, NoKw, TRUE, <<>>, <<>>)
    /\ UNCHANGED <<assets, next_id, marketplace_items, components_library, issued,
                   deleted, n_mut, probe>>

not_found(op, asset_id) ==
    /\ last' = Call(op, asset_id, NoKw, FALSE, <<>>, <<>>)
    /\ UNCHANGED <<assets, next_id, marketplace_items, components_library, issued,
                   deleted, n_mut, probe>>

unlist_keep(items, asset_id) == items

\* "if asset_id in self.marketplace_items: self.marketplace_items.remove(asset_id)"
unlist(items, asset_id) ==
    IF Contains(items, asset_id) THEN ListRemove(items, asset_id) ELSE items

delete_asset(asset_id) ==
    IF asset_id \in Keys(assets)
    THEN /\ assets' = DictDel(assets, asset_id)
         /\ marketplace_items' = unlist(marketplace_items, asset_id)
         /\ last' = Call("delete_asset", asset_id, NoKw, TRUE, <<>>, <<>>)
         /\ deleted' = deleted \cup {asset_id}
         /\ UNCHANGED <<next_id, components_library, issued, n_mut, probe>>
    ELSE not_found("delete_asset", asset_id)

reevaluate_skip(asset) == asset

\* "asset.disposal_strategy = asset.evaluate_disposal_strategy()"
reevaluate(asset) ==
    [asset EXCEPT !.disposal_strategy = evaluate_disposal_strategy(asset)]

update_asset_resync(asset_id, kwargs) ==
    IF asset_id \notin Keys(assets)
    THEN not_found("update_asset", asset_id)
    ELSE /\ n_mut < MaxMutations
         /\ LET asset == reevaluate(setattr_all(Lookup(assets, asset_id), kwargs))
            IN  /\ assets' = DictSet(assets, asset_id, asset)
                /\ marketplace_items' =
                       IF asset.disposal_strategy = MARKETPLACE
                       THEN (IF Contains(marketplace_items, asset_id)
                             THEN marketplace_items
                             ELSE Append(marketplace_items, asset_id))
                       ELSE unlist(marketplace_items, asset_id)
         /\ last' = Call("update_asset", asset_id, kwargs, TRUE, <<>>, <<>>)
         /\ n_mut' = n_mut + 1
         /\ UNCHANGED <<next_id, components_library, issued, deleted, probe>>

update_asset(asset_id, kwargs) ==
    IF asset_id \notin Keys(assets)
    THEN not_found("update_asset", asset_id)
    ELSE /\ n_mut < MaxMutations
         /\ LET asset == Lookup(assets, asset_id)
            IN  assets' = DictSet(assets, asset_id, reevaluate(setattr_all(asset, kwargs)))
         /\ last' = Call("update_asset", asset_id, kwargs, TRUE, <<>>, <<>>)
         /\ n_mut' = n_mut + 1
         /\ UNCHANGED <<next_id, marketplace_items, components_library, issued,
                        deleted, probe>>

\* self.assets.get(asset_id): <<>> is None, <<asset>> is the asset found.
get_asset(d, asset_id) ==
    IF asset_id \in Keys(d) THEN <<Lookup(d, asset_id)>> ELSE <<>>

\* A caller stamps an asset it got from get_asset: asset.update_status(new_status).
asset_update_status(asset_id, new_status) ==
    /\ asset_id \in Keys(assets)
    /\ n_mut < MaxMutations
    /\ assets' = DictSet(assets, asset_id,
                         update_status(Lookup(assets, asset_id), new_status))
    /\ last' = Call("update_status", asset_id, [status |-> new_status], TRUE, <<>>, <<>>)
    /\ n_mut' = n_mut + 1
    /\ UNCHANGED <<next_id, marketplace_items, components_library, issued, deleted, probe>>

matches_strict(asset, criteria) ==
    \A key \in DOMAIN criteria : hasattr(asset, key) /\ asset[key] = criteria[key]

\* The inner loop of search_assets: a key the asset has must equal the value; a
\* key it does not have is skipped.
matches(asset, criteria) ==
    \A key \in DOMAIN criteria : hasattr(asset, key) => asset[key] = criteria[key]

Reverse(list) == [i \in DOMAIN list |-> list[Len(list) + 1 - i]]

search_results_reversed(d, criteria) ==
    LET Match(asset) == matches(asset, criteria)
    IN  Reverse(SelectSeq(Values(d), Match))

search_results(d, criteria) ==
    LET Match(asset) == matches(asset, criteria)
    IN  SelectSeq(Values(d), Match)

search_assets(criteria) ==
    /\ last' = Call("search_assets", <<>>, criteria, TRUE, <<>>,
                    search_results(assets, criteria))
    /\ UNCHANGED <<assets, next_id, marketplace_items, components_library, issued,
                   deleted, n_mut, probe>>

Next ==
    \/ \E d \in SampleDevices :
          add_asset(d.name, d.model, d.category, d.age_years, d.battery_health,
                    d.can_refurbish, d.is_hazardous)
    \/ \E id \in IdsTried : delete_asset(id)
    \/ \E id \in IdsTried, kwargs \in UpdateKwargs : update_asset(id, kwargs)
    \/ \E id \in IdsTried, s \in Statuses : asset_update_status(id, s)
    \/ \E criteria \in SearchCriteria : search_assets(criteria)

Spec == Init /\ [][Next]_vars

(***************************************************************************)
(* The classifier on its own: one call on arguments drawn from sets that   *)
(* hold the values just below, at and above every threshold.               *)
(***************************************************************************)
ClassifierAges == {0, 150, 299, 300, 301, 499, 500, 501, 699, 700, 701, 1200}

ClassifierBatteries == {0, 39, 40, 41, 69, 70, 71, 100}

Pending == "pending"

InitClassify ==
    /\ assets = <<>>
    /\ next_id = 1
    /\ marketplace_items = <<>>
    /\ components_library = <<>>
    /\ last = Call("__init__", <<>>, NoKw, TRUE, <<>>, <<>>)
    /\ issued = <<>>
    /\ deleted = {}
    /\ n_mut = 0
    /\ \E category \in DeviceCategory, age_years \in ClassifierAges,
          battery_health \in ClassifierBatteries, can_refurbish \in BOOLEAN,
          is_hazardous \in BOOLEAN :
          probe = [self |-> AssetFields(FormatId(1), "Device", "Model", category,
                                        age_years, battery_health, can_refurbish,
                                        is_hazardous),
                   result |-> Pending]

Classify ==
    /\ probe.result = Pending
    /\ probe' = [probe EXCEPT !.result = evaluate_disposal_strategy(probe.self)]
    /\ UNCHANGED <<assets, next_id, marketplace_items, components_library, last,
                   issued, deleted, n_mut>>

NextClassify == Classify

SpecClassify == InitClassify /\ [][NextClassify]_vars

(***************************************************************************)
(* Properties                                                              *)
(***************************************************************************)

\* C1: the marketplace index holds exactly the identifiers of the assets in the
\* inventory whose current disposal strategy is Marketplace.
MarketplaceInSync ==
    \A id \in IdsTried :
        Contains(marketplace_items, id)
            <=> (id \in Keys(assets)
                 /\ Lookup(assets, id).disposal_strategy = MARKETPLACE)

\* C2: every asset's stored disposal strategy is the classifier's output for the
\* asset's current attribute values, also after an update that supplied a value
\* for disposal_strategy itself.
StrategyIsCurrent ==
    \A i \in DOMAIN assets :
        assets[i].val.disposal_strategy = evaluate_disposal_strategy(assets[i].val)

StrategyOverrideWitness ==
    /\ last.op = "update_asset"
    /\ last.ok
    /\ "disposal_strategy" \in DOMAIN last.kwargs
    /\ last.asset_id \in Keys(assets)
    /\ Lookup(assets, last.asset_id).disposal_strategy # last.kwargs.disposal_strategy

\* The six rules in order, each a condition and the strategy it gives.
RuleTable(a) ==
    << [cond |-> a.is_hazardous, strategy |-> HAZARDOUS_DISPOSAL],
       [cond |-> a.age_years < 300 /\ a.battery_health > 70 /\ a.can_refurbish,
        strategy |-> RELOCATE],
       [cond |-> a.can_refurbish /\ a.age_years < 500 /\ a.battery_health > 40,
        strategy |-> MARKETPLACE],
       [cond |-> a.category = "Lab Equipment" /\ a.can_refurbish,
        strategy |-> REPURPOSE],
       [cond |-> ~a.can_refurbish /\ a.age_years < 700, strategy |-> STRIP_COMPONENTS],
       [cond |-> TRUE, strategy |-> RECYCLE] >>

FirstMatch(a) ==
    LET table == RuleTable(a)
        first == CHOOSE i \in DOMAIN table :
                     table[i].cond /\ \A j \in 1..(i - 1) : ~table[j].cond
    IN  table[first].strategy

\* C3: the classifier returns the strategy of the first matching rule of the
\* six-rule table, exactly one strategy, and with strict comparisons: age exactly
\* 3, 5 or 7 and battery exactly 70 or 40 fall through to a later rule.
ClassifierFollowsTable ==
    probe.result # Pending =>
        LET a == probe.self
            r == probe.result
        IN  /\ r \in DisposalStrategy
            /\ r = FirstMatch(a)
            /\ a.is_hazardous => r = HAZARDOUS_DISPOSAL
            /\ (~a.is_hazardous /\ (a.age_years = 300 \/ a.battery_health = 70))
                   => r # RELOCATE
            /\ (~a.is_hazardous /\ (a.age_years = 500 \/ a.battery_health = 40))
                   => r \notin {RELOCATE, MARKETPLACE}
            /\ (~a.is_hazardous /\ a.age_years = 700)
                   => r \notin {RELOCATE, MARKETPLACE, STRIP_COMPONENTS}

ClassifierBoundaryWitness ==
    /\ probe.result = MARKETPLACE
    /\ probe.self.age_years = 300
    /\ probe.self.battery_health = 71
    /\ probe.self.can_refurbish
    /\ ~probe.self.is_hazardous

\* C4: an identifier that delete_asset removed is absent from get_asset, from
\* every search result and from the marketplace index, in every later state.
DeletedStaysGone ==
    \A id \in deleted :
        /\ get_asset(assets, id) = <<>>
        /\ ~Contains(marketplace_items, id)
        /\ \A criteria \in SearchCriteria \cup {[asset_id |-> id]} :
               \A i \in DOMAIN search_results(assets, criteria) :
                   search_results(assets, criteria)[i].asset_id # id
        /\ last.op = "search_assets" =>
               \A i \in DOMAIN last.results : last.results[i].asset_id # id

DeletedThenSearchedWitness ==
    /\ deleted # {}
    /\ last.op = "search_assets"
    /\ DOMAIN last.kwargs = {}
    /\ last.results # <<>>

\* C5: next_id never decreases, grows by exactly 1 on each add and is unchanged by
\* every other operation; an add returns an identifier no earlier add returned;
\* an asset's identifier never changes.
IdentifiersStable ==
    [][ /\ next_id' >= next_id
        /\ last'.op = "add_asset" =>
               /\ next_id' = next_id + 1
               /\ issued' = Append(issued, last'.ret)
               /\ \A i \in DOMAIN issued : issued[i] # last'.ret
        /\ last'.op # "add_asset" => next_id' = next_id
        /\ \A i \in DOMAIN assets, j \in DOMAIN assets' :
               assets[i].key = assets'[j].key =>
                   assets'[j].val.asset_id = assets[i].val.asset_id
      ]_vars

AddAfterDeleteWitness ==
    /\ last.op = "add_asset"
    /\ deleted # {}
    /\ Len(issued) >= 2
    /\ last.ret \in Keys(assets)

\* C6: delete_asset and update_asset called with an identifier that is not in the
\* inventory return False and leave the asset map, the marketplace index and
\* next_id unchanged.
UnknownIdChangesNothing ==
    [][ (last'.op \in {"delete_asset", "update_asset"}
         /\ last'.asset_id \notin Keys(assets))
        => (~last'.ok /\ UNCHANGED inv_vars)
      ]_vars

FailedUpdateWitness ==
    /\ last.op = "update_asset"
    /\ ~last.ok
    /\ last.asset_id \in deleted
    /\ Len(assets) > 0

\* C7: every asset with is_hazardous true has disposal strategy
\* HazardousDisposal, whatever its other attributes.
HazardousDominates ==
    \A i \in DOMAIN assets :
        assets[i].val.is_hazardous =>
            assets[i].val.disposal_strategy = HAZARDOUS_DISPOSAL

HazardousYoungWitness ==
    /\ last.op = "update_asset"
    /\ last.ok
    /\ \E i \in DOMAIN assets :
          /\ assets[i].key = last.asset_id
          /\ assets[i].val.is_hazardous
          /\ assets[i].val.can_refurbish
          /\ assets[i].val.age_years < 300
          /\ assets[i].val.battery_health > 70

\* C8 as stated: a search whose criteria hold a field name that is not an
\* attribute of an asset returns no asset.
UnknownFieldExcludes ==
    (last.op = "search_assets" /\ DOMAIN last.kwargs \ AssetAttributes # {})
        => last.results = <<>>

KnownPart(criteria) ==
    [key \in DOMAIN criteria \cap AssetAttributes |-> criteria[key]]

\* C8 as amended: search_assets skips a field name that is not an attribute of
\* an asset; it returns, in inventory order, exactly the assets that equal the
\* given value on every field name that is one.
UnknownFieldIgnored ==
    last.op = "search_assets" =>
        LET known == KnownPart(last.kwargs)
            Agrees(asset) == \A key \in DOMAIN known : asset[key] = known[key]
        IN  last.results = SelectSeq(Values(assets), Agrees)

UnknownFieldSearchWitness ==
    /\ last.op = "search_assets"
    /\ DOMAIN last.kwargs \ AssetAttributes # {}
    /\ last.results # <<>>
    /\ Len(last.results) < Len(assets)

\* C9: an asset whose status is "In Use" has its last-used timestamp set.
InUseHasLastUsed ==
    \A i \in DOMAIN assets :
        assets[i].val.status = "In Use" => assets[i].val.last_used # None

\* C10: update_asset with no keyword argument on an existing asset returns True
\* and leaves the asset map, the marketplace index and next_id unchanged.
EmptyUpdateChangesNothing ==
    [][ (last'.op = "update_asset" /\ DOMAIN last'.kwargs = {}
         /\ last'.asset_id \in Keys(assets))
        => (last'.ok /\ UNCHANGED inv_vars)
      ]_vars

EmptyUpdateWitness ==
    /\ last.op = "update_asset"
    /\ last.ok
    /\ DOMAIN last.kwargs = {}
    /\ last.asset_id \in Keys(assets)
    /\ Contains(marketplace_items, last.asset_id)

UpdateLeavesIndexAlone ==
    [][ last'.op = "update_asset" =>
            /\ marketplace_items' = marketplace_items
            /\ Keys(assets') = Keys(assets)
            /\ next_id' = next_id
      ]_vars

UpdateLeftStaleIndexWitness ==
    /\ last.op = "update_asset"
    /\ last.ok
    /\ \/ /\ Contains(marketplace_items, last.asset_id)
          /\ Lookup(assets, last.asset_id).disposal_strategy # MARKETPLACE
       \/ /\ ~Contains(marketplace_items, last.asset_id)
          /\ Lookup(assets, last.asset_id).disposal_strategy = MARKETPLACE

\* C15: add_asset returns the identifier built from next_id as it was before
\* the call; that identifier then maps to an asset with the given attributes,
\* status "Dormant" and the classifier's strategy; it is appended at the end of
\* the marketplace index exactly when that strategy is Marketplace; the assets
\* and index entries that were there before are unchanged.
AddCreatesClassifiedAsset ==
    [][ last'.op = "add_asset" =>
            LET id  == FormatId(next_id)
                new == Lookup(assets', id)
                d   == last'.kwargs
            IN  /\ last'.ok
                /\ last'.ret = id
                /\ Len(assets') = Len(assets) + 1
                /\ SubSeq(assets', 1, Len(assets)) = assets
                /\ assets'[Len(assets')].key = id
                /\ new.asset_id = id
                /\ \A f \in DOMAIN d : new[f] = d[f]
                /\ new.status = "Dormant"
                /\ new.last_used = None
                /\ new.disposal_strategy = FirstMatch(new)
                /\ marketplace_items' =
                       IF new.disposal_strategy = MARKETPLACE
                       THEN Append(marketplace_items, id)
                       ELSE marketplace_items
      ]_vars

SecondListingWitness ==
    /\ last.op = "add_asset"
    /\ Len(marketplace_items) = 2
    /\ marketplace_items[2] = last.ret
    /\ Lookup(assets, last.ret).name = last.kwargs.name

\* C16: search_assets with criteria that name only attributes of an asset
\* returns, in the inventory's insertion order, exactly the assets equal to the
\* given value on every field; with no criteria it returns every asset; it
\* changes nothing in the inventory.
SearchReturnsMatchesInOrder ==
    [][ last'.op = "search_assets" =>
            LET kw == last'.kwargs
                Equal(asset) == \A key \in DOMAIN kw : asset[key] = kw[key]
            IN  /\ UNCHANGED inv_vars
                /\ DOMAIN kw \subseteq AssetAttributes =>
                       last'.results = SelectSeq(Values(assets), Equal)
                /\ DOMAIN kw = {} => last'.results = Values(assets)
      ]_vars

SearchByNameWitness ==
    /\ last.op = "search_assets"
    /\ DOMAIN last.kwargs = {"name"}
    /\ Len(last.results) = 1
    /\ Len(assets) = 2
    /\ last.results[1] = assets[2].val

\* C17: every identifier in the marketplace index is a key of the asset map, so
\* the lookup show_marketplace makes for each listed identifier finds an asset.
ListedAreStored ==
    \A i \in DOMAIN marketplace_items :
        /\ marketplace_items[i] \in Keys(assets)
        /\ get_asset(assets, marketplace_items[i]) # <<>>

ListedSurvivesDeleteWitness ==
    /\ last.op = "delete_asset"
    /\ last.ok
    /\ marketplace_items # <<>>
    /\ deleted # {}

DigitValue(c) == CHOOSE n \in 0..9 : DigitChars[n + 1] = c

RECURSIVE ParseDigits(_)
ParseDigits(s) ==
    IF s = <<>> THEN 0
    ELSE ParseDigits(SubSeq(s, 1, Len(s) - 1)) * 10 + DigitValue(s[Len(s)])

\* The number an identifier ends with.
Suffix(id) == ParseDigits(Tail(id))

\* C18: the marketplace index lists its identifiers in strictly increasing order
\* of their numeric suffix, so none twice, and every identifier in the asset map
\* or in the index has a suffix below next_id.
IndexInCreationOrder ==
    /\ \A i, j \in DOMAIN marketplace_items :
           i < j => Suffix(marketplace_items[i]) < Suffix(marketplace_items[j])
    /\ \A i \in DOMAIN marketplace_items : Suffix(marketplace_items[i]) < next_id
    /\ \A i \in DOMAIN assets : Suffix(assets[i].key) < next_id

TwoListedWitness ==
    /\ Len(marketplace_items) = 2
    /\ n_mut >= 1
    /\ Suffix(marketplace_items[2]) = 2

(***************************************************************************)
(* The procurement check, on an inventory of the demo's devices.           *)
(***************************************************************************)
\* str.lower() on the names the model uses; a name with no capital is itself.
lower_identity(s) == s

lower(s) ==
    CASE s \in {"Laptop", "LAPTOP"} -> "laptop"
      [] s = "MacBook Pro" -> "macbook pro"
      [] s = "Lab Refrigerator" -> "lab refrigerator"
      [] OTHER -> s

dormant_matches_any_name(d, device_name, device_category) ==
    LET Match(asset) ==
            /\ asset.status = "Dormant"
            /\ asset.category = device_category
    IN  SelectSeq(Values(d), Match)

\* The list comprehension of check_procurement_prevention.
dormant_matches(d, device_name, device_category) ==
    LET Match(asset) ==
            /\ lower(asset.name) = lower(device_name)
            /\ asset.status = "Dormant"
            /\ asset.category = device_category
    IN  SelectSeq(Values(d), Match)

\* What check_procurement_prevention returns: <<>> is None, <<list>> is the list.
procurement_return(d, device_name, device_category) ==
    LET found == dormant_matches(d, device_name, device_category)
    IN  IF found # <<>> THEN <<found>> ELSE <<>>

check_procurement_prevention(device_name, device_category) ==
    /\ last' = Call("check_procurement_prevention", <<>>,
                    [device_name |-> device_name, device_category |-> device_category],
                    TRUE, <<>>,
                    procurement_return(assets, device_name, device_category))
    /\ UNCHANGED <<assets, next_id, marketplace_items, components_library, issued,
                   deleted, n_mut, probe>>

\* Three devices of the demo (lines 399, 400 and 402).
ProcureDevices ==
    { Device("Laptop", "ThinkPad X1", LAPTOP, 150, 85, TRUE, FALSE),
      Device("Lab Refrigerator", "Samsung-400L", LAB_EQUIPMENT, 400, 100, FALSE, FALSE),
      Device("MacBook Pro", "M1-2021", LAPTOP, 200, 90, TRUE, FALSE) }

ProcureKwargs ==
    {[status |-> "In Use"], [status |-> "Dormant"], [name |-> "LAPTOP"],
     [category |-> LAB_EQUIPMENT]}

ProcureNames == {"Laptop", "laptop", "MacBook Pro"}

ProcureCategories == {LAPTOP, LAB_EQUIPMENT}

NextProcure ==
    \/ \E d \in ProcureDevices :
          add_asset(d.name, d.model, d.category, d.age_years, d.battery_health,
                    d.can_refurbish, d.is_hazardous)
    \/ \E id \in IdsTried : delete_asset(id)
    \/ \E id \in IdsTried, kwargs \in ProcureKwargs : update_asset(id, kwargs)
    \/ \E device_name \in ProcureNames, device_category \in ProcureCategories :
          check_procurement_prevention(device_name, device_category)

SpecProcure == Init /\ [][NextProcure]_vars

\* Names that differ only in the case of their letters.
CaseClasses == {{"Laptop", "laptop", "LAPTOP"}}

SameIgnoringCase(a, b) == a = b \/ \E class \in CaseClasses : a \in class /\ b \in class

\* The assets the procurement check is to find, in inventory order.
Qualifying(d, device_name, device_category) ==
    LET Qualifies(asset) ==
            /\ SameIgnoringCase(asset.name, device_name)
            /\ asset.status = "Dormant"
            /\ asset.category = device_category
    IN  SelectSeq(Values(d), Qualifies)

\* C12 as stated: the procurement check returns the sequence of exactly the
\* qualifying assets, the empty sequence when none qualifies.
ProcurementReturnsSequence ==
    last.op = "check_procurement_prevention" =>
        last.results =
            <<Qualifying(assets, last.kwargs.device_name, last.kwargs.device_category)>>

\* C12 as amended: the procurement check returns the list of exactly the assets
\* whose name equals device_name ignoring case, whose status is "Dormant" and
\* whose category equals device_category when there is at least one, and None
\* when there is none; it changes nothing in the inventory.
ProcurementReturnsListOrNone ==
    [][ last'.op = "check_procurement_prevention" =>
            LET expected == Qualifying(assets, last'.kwargs.device_name,
                                       last'.kwargs.device_category)
            IN  /\ UNCHANGED inv_vars
                /\ expected # <<>> => last'.results = <<expected>>
                /\ expected = <<>> => last'.results = <<>>
      ]_vars

ProcurementCaseWitness ==
    /\ last.op = "check_procurement_prevention"
    /\ last.kwargs.device_name = "laptop"
    /\ last.results # <<>>
    /\ Len(last.results[1]) < Len(assets)
    /\ \E i \in DOMAIN last.results[1] : last.results[1][i].name # "laptop"

\* The MacBook Pro of the demo, while it is as add_asset made it.
IsDormantMacBook(asset) ==
    /\ asset.name = "MacBook Pro"
    /\ asset.category = LAPTOP
    /\ asset.status = "Dormant"

\* C13 as stated: while the MacBook Pro is dormant, the procurement check for
\* ("Laptop", Laptop) returns a non-empty list that includes it.
LaptopCheckFindsMacBook ==
    (/\ last.op = "check_procurement_prevention"
     /\ last.kwargs.device_name = "Laptop"
     /\ last.kwargs.device_category = LAPTOP)
    => \A i \in DOMAIN assets :
           IsDormantMacBook(assets[i].val)
               => (last.results # <<>> /\ Contains(last.results[1], assets[i].val))

\* C13 as amended: the MacBook Pro is classified Relocate when added; while it is
\* dormant the procurement check for ("MacBook Pro", Laptop) returns a non-empty
\* list that includes it, and the check for ("Laptop", Laptop) never includes
\* it: that check lists only assets named "laptop" in some case.
MacBookFoundByItsName ==
    /\ (last.op = "add_asset" /\ last.kwargs.name = "MacBook Pro")
           => Lookup(assets, last.ret).disposal_strategy = RELOCATE
    /\ (/\ last.op = "check_procurement_prevention"
        /\ last.kwargs.device_category = LAPTOP)
       => \A i \in DOMAIN assets :
              IsDormantMacBook(assets[i].val) =>
                  /\ last.kwargs.device_name = "MacBook Pro"
                         => (/\ last.results # <<>>
                             /\ Contains(last.results[1], assets[i].val))
                  /\ last.kwargs.device_name = "Laptop"
                         => (\/ last.results = <<>>
                             \/ ~Contains(last.results[1], assets[i].val))

DemoCheckWitness ==
    /\ last.op = "check_procurement_prevention"
    /\ last.kwargs.device_name = "Laptop"
    /\ last.kwargs.device_category = LAPTOP
    /\ last.results # <<>>
    /\ \E i \in DOMAIN assets : IsDormantMacBook(assets[i].val)

====
